---------------------------- MODULE Spec2Model ----------------------------
(***************************************************************************)
(* APOD background loader (assets/js/apod.js, date-based variant, lines    *)
(* 1-229): checkLastVisit / fetchAPODImage and the fetch and image-load    *)
(* callbacks they install, over the two local-storage keys, the CONFIG     *)
(* global, the system clock and the page background.                       *)
(*                                                                         *)
(* Strings are sequences of tokens (a token is a TLA+ string); the empty   *)
(* sequence stands for '' and for undefined, which the code never tells    *)
(* apart (it tests them for truthiness or compares them with a non-empty   *)
(* string).                                                                *)
(***************************************************************************)
EXTENDS Integers, Sequences, FiniteSets, TLC

(***************************************************************************)
(* Bounds of the model.                                                    *)
(***************************************************************************)
\* number of triggers (load / visibilitychange-to-visible events) of a run
MaxTriggers == 1
\* number of triggers of a run that stays within one calendar day
MaxSameDayTriggers == 2
\* number of midnights the clock passes during a run
MaxTicks == 1

(***************************************************************************)
(* Strings, dates.                                                          *)
(***************************************************************************)
Undefined == << >>

DigitChars == <<"0", "1", "2", "3", "4", "5", "6", "7", "8", "9">>

\* Number.prototype.toString / String(n) of a non-negative integer
RECURSIVE NumberToString(_)
NumberToString(n) ==
  IF n < 10 THEN <<DigitChars[n + 1]>>
  ELSE NumberToString(n \div 10) \o <<DigitChars[(n % 10) + 1]>>

\* the padStart that drops the padding (a plausible slip)
PadStart2_NoPad(s) == s

\* s.padStart(2, '0')
PadStart2(s) ==
  IF Len(s) >= 2 THEN s
  ELSE IF Len(s) = 1 THEN <<"0">> \o s ELSE <<"0", "0">>

\* s.substring(2)
Substring2(s) == IF Len(s) <= 2 THEN << >> ELSE SubSeq(s, 3, Len(s))

StartsWith(s, tok) == Len(s) >= 1 /\ s[1] = tok

\* tokens that begin with the characters "http"
HttpTokens == {"https://apod.nasa.gov", "https://example.org"}

StartsWithHttp(s) == Len(s) >= 1 /\ s[1] \in HttpTokens

\* a Date value: getFullYear(), getMonth() (0-based), getDate()
IsLeap(y) == (y % 4 = 0 /\ y % 100 # 0) \/ y % 400 = 0

DaysInMonth(y, m0) ==
  IF m0 = 1 THEN (IF IsLeap(y) THEN 29 ELSE 28)
  ELSE IF m0 \in {3, 5, 8, 10} THEN 30 ELSE 31

\* the calendar day after d
NextDay(d) ==
  IF d.date < DaysInMonth(d.year, d.month)
    THEN [d EXCEPT !.date = d.date + 1]
  ELSE IF d.month < 11
    THEN [d EXCEPT !.month = d.month + 1, !.date = 1]
  ELSE [year |-> d.year + 1, month |-> 0, date |-> 1]

\* the clock of the first state: New Year's Eve, so that one tick changes
\* the year, the month and the day and brings in the zero padding
StartDate == [year |-> 2024, month |-> 11, date |-> 31]

\* CurrentDateStr with getMonth() used as is (the classic off-by-one)
CurrentDateStr_ZeroBasedMonth(d) ==
  NumberToString(d.year) \o <<"-">> \o PadStart2(NumberToString(d.month))
    \o <<"-">> \o PadStart2(NumberToString(d.date))

\* `${y}-${String(m + 1).padStart(2, '0')}-${String(d).padStart(2, '0')}`
CurrentDateStr(d) ==
  NumberToString(d.year) \o <<"-">> \o PadStart2(NumberToString(d.month + 1))
    \o <<"-">> \o PadStart2(NumberToString(d.date))


(***************************************************************************)
(* URLs and HTML.  A URL is a sequence of tokens; an HTML page is the      *)
(* sequence of its tags, each with the one attribute the patterns look at. *)
(***************************************************************************)
SiteRoot == <<"https://apod.nasa.gov">>
ApodDir == <<"https://apod.nasa.gov", "/", "apod", "/">>
ImageDir == <<"https://apod.nasa.gov", "/", "apod", "/", "image", "/">>

Tag(name, attr, value) == [tag |-> name, attr |-> attr, value |-> value]

\* <img src="image/foo.jpg">
PageRelativeImg == << Tag("img", "src", <<"image", "/", "foo", ".jpg">>) >>
\* the shape of the real page: <a href="image/foo.jpg"><img src="image/foo_small.jpg"></a>
PageLinkedImg ==
  << Tag("a", "href", <<"image", "/", "foo", ".jpg">>),
     Tag("img", "src", <<"image", "/", "foo_small", ".jpg">>) >>
\* <img src="/apod/image/foo.jpg">
PageRootedImg ==
  << Tag("img", "src", <<"/", "apod", "/", "image", "/", "foo", ".jpg">>) >>
\* <img src="https://apod.nasa.gov/apod/image/foo.jpg">
PageAbsoluteImg == << Tag("img", "src", ImageDir \o <<"foo", ".jpg">>) >>
\* a video day: <iframe src="https://example.org/embed"> and a logo
PageVideo ==
  << Tag("iframe", "src", <<"https://example.org", "/", "embed">>),
     Tag("img", "src", <<"/", "logo", ".gif">>),
     Tag("a", "href", <<"archive", ".html">>) >>

HtmlPages ==
  {PageRelativeImg, PageLinkedImg, PageRootedImg, PageAbsoluteImg, PageVideo}

\* the body of a non-OK response: a page like any other, with an image in it
ErrorBodies == {PageRootedImg}

\* s contains "/image/"
ContainsImageDir(s) ==
  \E i \in 1..(Len(s) - 2) : s[i] = "/" /\ s[i + 1] = "image" /\ s[i + 2] = "/"

EndsWithJpg(s) == Len(s) >= 1 /\ s[Len(s)] = ".jpg"

\* the pattern of the legacy variant, /<img src="(image\/.*?)".*?>/i
ImgRegexMatches_Legacy(t) ==
  /\ t.tag = "img" /\ t.attr = "src"
  /\ Len(t.value) >= 2 /\ t.value[1] = "image" /\ t.value[2] = "/"

\* /<img\s+[^>]*src=["']([^"']*\/image\/[^"']*)["'][^>]*>/i on one tag
ImgRegexMatches(t) ==
  t.tag = "img" /\ t.attr = "src" /\ ContainsImageDir(t.value)

\* /<a\s+[^>]*href=["']([^"']*\.jpg)["'][^>]*>/i on one tag
BackupRegexMatches(t) ==
  t.tag = "a" /\ t.attr = "href" /\ EndsWithJpg(t.value)

FirstIndex(html, P(_)) ==
  LET hits == {i \in 1..Len(html) : P(html[i])}
  IN  IF hits = {} THEN 0 ELSE CHOOSE i \in hits : \A j \in hits : i <= j

\* html.match(imgRegex), then html.match(backupRegex): match[1], or Undefined
Match(html) ==
  LET i == FirstIndex(html, ImgRegexMatches)
      j == FirstIndex(html, BackupRegexMatches)
  IN  IF i # 0 THEN html[i].value
      ELSE IF j # 0 THEN html[j].value
      ELSE Undefined

\* "Make sure the URL is absolute"
MakeAbsolute(imageUrl) ==
  IF StartsWith(imageUrl, "/") THEN SiteRoot \o imageUrl
  ELSE IF ~StartsWithHttp(imageUrl) THEN ApodDir \o imageUrl
  ELSE imageUrl

\* `https://apod.nasa.gov/apod/image/${year}${month}/${year}${month}${day}.jpg`
DirectImageUrl(today) ==
  LET year == Substring2(NumberToString(today.year))
      month == PadStart2(NumberToString(today.month + 1))
      day == PadStart2(NumberToString(today.date))
  IN  ImageDir \o year \o month \o <<"/">> \o year \o month \o day \o <<".jpg">>

(***************************************************************************)
(* The image processor's target dimensions.                                *)
(***************************************************************************)
MAX_DIMENSION == 1200

RECURSIVE GCD(_, _)
GCD(a, b) == IF b = 0 THEN a ELSE GCD(b, a % b)

RECURSIVE IsPowerOfTwo(_)
IsPowerOfTwo(n) == n = 1 \/ (n > 1 /\ n % 2 = 0 /\ IsPowerOfTwo(n \div 2))

\* MAX_DIMENSION / longest is a double without rounding error: in lowest
\* terms its denominator is a power of two (1200 / 2400 is 0.5)
ExactQuotient(longest) == IsPowerOfTwo(longest \div GCD(MAX_DIMENSION, longest))

\* Math.round(side * (MAX_DIMENSION / longest)).  Math.round rounds halves
\* up; the quotient and the product are IEEE doubles, so a product that is
\* exactly a half in the reals may come out just below it (1696 x 159 gives
\* 112.49999999999999) unless the quotient is exact: on such a tie both
\* neighbours are values the build can produce, otherwise the result is the
\* nearest integer, halves up.
RoundScaled(side, longest) ==
  LET num == 2 * side * MAX_DIMENSION + longest
      up == num \div (2 * longest)
  IN  IF num % (2 * longest) = 0 /\ ~ExactQuotient(longest)
        THEN {up - 1, up}
      ELSE {up}

\* the branch order swapped: the height is tested first and alone
TargetDimensions_HeightOnly(width, height) ==
  IF height > MAX_DIMENSION
    THEN {<<r, MAX_DIMENSION>> : r \in RoundScaled(width, height)}
  ELSE {<<width, height>>}

\* "Calculate new dimensions while maintaining aspect ratio": <<width, height>>
TargetDimensions(width, height) ==
  IF width > height /\ width > MAX_DIMENSION
    THEN {<<MAX_DIMENSION, r>> : r \in RoundScaled(height, width)}
  ELSE IF height > MAX_DIMENSION
    THEN {<<r, MAX_DIMENSION>> : r \in RoundScaled(width, height)}
  ELSE {<<width, height>>}

\* canvas.toDataURL('image/jpeg', 0.85) of imageUrl drawn at width x height;
\* a canvas with an empty side serialises to "data:,"
DataUrl(imageUrl, width, height) ==
  IF width = 0 \/ height = 0 THEN <<"data:,">>
  ELSE <<"data:image/jpeg;base64,">> \o imageUrl \o <<"@">>
         \o NumberToString(width) \o <<"x">> \o NumberToString(height)

IsDataUrl(s) == Len(s) >= 1 /\ s[1] \in {"data:,", "data:image/jpeg;base64,"}

\* the natural sizes of the images the pipeline run loads
NaturalSizes == {<<2400, 1600>>}

(***************************************************************************)
(* Local storage.  An item is null (no such key), a plain string, or a     *)
(* JSON text, held as the object it parses to.                             *)
(***************************************************************************)
EmptyObject == [f \in {} |-> Undefined]

NullItem == [kind |-> "null", chars |-> Undefined, obj |-> EmptyObject]
StringItem(s) == [kind |-> "string", chars |-> s, obj |-> EmptyObject]

\* JSON.stringify(obj)
JSONstringify(obj) == [kind |-> "json", chars |-> Undefined, obj |-> obj]

\* obj.field, undefined when the object has no such property
Get(obj, field) == IF field \in DOMAIN obj THEN obj[field] ELSE Undefined

\* localStorage.getItem(key) || fallback, as a string
GetItemOr(item, fallback) == IF item.kind = "null" THEN fallback ELSE item.chars

\* JSON.parse(localStorage.getItem(CACHE_KEY) || '{}') throws a SyntaxError
JSONparseThrows(item) == item.kind = "string"

\* JSON.parse(localStorage.getItem(CACHE_KEY) || '{}')
JSONparse(item) == IF item.kind = "json" THEN item.obj ELSE EmptyObject

\* the space a value takes: a date string, a record with a plain URL, a
\* record with an embedded image
SizeClass(item) ==
  IF item.kind # "json" THEN 1
  ELSE IF IsDataUrl(Get(item.obj, "imageUrl")) THEN 3
  ELSE 2

\* the space the profile's storage leaves: 0 (storage disabled) .. 3
QuotaLevels == 0..3

(***************************************************************************)
(* CONFIG, the global the page's configuration script declares.            *)
(***************************************************************************)
HardCodedBackground ==
  ImageDir \o <<"2409", "/", "Bat_Taivalnaa_4200", ".jpg">>
HttpDefault == <<"https://example.org", "/", "bg", ".jpg">>
LocalDefault == <<"assets", "/", "bg", ".jpg">>

Configs ==
  {[declared |-> FALSE, defaultBackground |-> Undefined]}
    \cup {[declared |-> TRUE, defaultBackground |-> b] :
            b \in {Undefined, HttpDefault, LocalDefault}}

\* the default the fallback ignores the configuration for
DefaultBackground_IgnoreConfig(config) == HardCodedBackground

\* CONFIG.defaultBackground || 'https://apod.nasa.gov/apod/image/2409/...'
DefaultBackground(config) ==
  IF config.defaultBackground # Undefined THEN config.defaultBackground
  ELSE HardCodedBackground

(***************************************************************************)
(* State.                                                                  *)
(***************************************************************************)
VARIABLES
  clock,            \* the calendar day new Date() reports
  ticks,            \* midnights passed so far
  localStorage,     \* [apod_cache, apod_last_visit]: the two items
  storageQuota,     \* the space the storage leaves (see SizeClass)
  CONFIG,           \* the configuration global
  loaded,           \* the window's load event has fired
  background,       \* the url setBackgroundImage applied last
  chains,           \* per trigger: the fetch-then-process chain it started
  nTriggers,        \* checkLastVisit calls so far
  lastWriter        \* the trigger whose chain stored the cache item (0: none)

vars ==
  <<clock, ticks, localStorage, storageQuota, CONFIG, loaded, background,
    chains, nTriggers, lastWriter>>

Ids == 1..(IF MaxTriggers > MaxSameDayTriggers THEN MaxTriggers ELSE MaxSameDayTriggers)

NoResponse == [kind |-> "none", ok |-> FALSE, body |-> << >>]
Rejected == [kind |-> "rejected", ok |-> FALSE, body |-> << >>]
Response(ok, body) == [kind |-> "response", ok |-> ok, body |-> body]

\* A chain.  pc is where it stands:
\*   idle       no trigger has started it
\*   fetching   await fetch(...) is pending
\*   responded  the fetch has settled (response), the continuation has not run
\*   probing    testImg.src is set in tryAlternativeApproaches
\*   loading    img.src is set in downloadAndProcessImage
\*   loadend    the image load has settled (settled, natural)
\*   done       nothing of the chain is left to run
\*   threw      an exception left a handler uncaught / the promise rejected
\* dateStr, imageUrl, response, settled, natural and canvas are the values
\* the closures and their objects hold; the rest records the path taken:
\*   path      cache (cache used), rejected (fetch failed in transport),
\*             status (response not OK), extracted (a pattern matched),
\*             miss (none did)
\*   probe     found / notfound, once the probe image has loaded / failed
\*   fallback  fallbackToDefaultBackground has been called
\*   rendered  the url the chain gave setBackgroundImage
IdleChain ==
  [pc |-> "idle", dateStr |-> Undefined, imageUrl |-> Undefined,
   response |-> NoResponse, settled |-> "none",
   natural |-> <<0, 0>>, canvas |-> <<0, 0>>,
   path |-> "none", probe |-> "none", fallback |-> FALSE,
   rendered |-> Undefined]

InitialCaches ==
  LET today == CurrentDateStr(StartDate)
      yesterday == CurrentDateStr([StartDate EXCEPT !.date = StartDate.date - 1])
      url == ImageDir \o <<"old", ".jpg">>
  IN  { NullItem,
        StringItem(<<"not json">>),
        JSONstringify([imageUrl |-> url, timestamp |-> <<"1735600000000">>]),
        JSONstringify([imageUrl |-> url, date |-> today]),
        JSONstringify([date |-> today]),
        JSONstringify([imageUrl |-> url, date |-> yesterday]) }

InitialLastVisits == {NullItem, StringItem(CurrentDateStr(StartDate))}

Init ==
  /\ clock = StartDate
  /\ ticks = 0
  /\ localStorage \in [apod_cache : InitialCaches, apod_last_visit : InitialLastVisits]
  /\ storageQuota \in QuotaLevels
  /\ CONFIG \in Configs
  /\ loaded = FALSE
  /\ background = Undefined
  /\ chains = [id \in Ids |-> IdleChain]
  /\ nTriggers = 0
  /\ lastWriter = 0

(***************************************************************************)
(* The functions of apod.js.  Each takes the chain's id and its record c   *)
(* as the calling handler leaves it, and states the handler's effect.      *)
(***************************************************************************)
\* localStorage.setItem(key, item) throws QuotaExceededError
SetItemThrows(item) == SizeClass(item) > storageQuota

\* the store that dates the record when it writes it (a new Date() in the
\* callback) instead of with the date string the chain started with
RenderAndStore_Redated(id, c, url, item) ==
  LET redated == JSONstringify([item.obj EXCEPT !.date = CurrentDateStr(clock)])
  IN  /\ background' = url
      /\ IF SetItemThrows(item)
           THEN /\ chains' = [chains EXCEPT ![id] = [c EXCEPT !.pc = "threw", !.rendered = url]]
                /\ UNCHANGED <<localStorage, lastWriter>>
         ELSE /\ chains' = [chains EXCEPT ![id] = [c EXCEPT !.pc = "done", !.rendered = url]]
              /\ localStorage' = [localStorage EXCEPT !.apod_cache = redated]
              /\ lastWriter' = id

\* the store that forgets to render: the record is written, the page keeps
\* the background it had
RenderAndStore_StoreOnly(id, c, url, item) ==
  /\ UNCHANGED background
  /\ IF SetItemThrows(item)
       THEN /\ chains' = [chains EXCEPT ![id] = [c EXCEPT !.pc = "threw", !.rendered = url]]
            /\ UNCHANGED <<localStorage, lastWriter>>
       ELSE /\ chains' = [chains EXCEPT ![id] = [c EXCEPT !.pc = "done", !.rendered = url]]
            /\ localStorage' = [localStorage EXCEPT !.apod_cache = item]
            /\ lastWriter' = id

\* the store that updates the cached object in place instead of replacing
\* it (Object.assign(cached, record)): fields the new record lacks survive
RenderAndStore_Merged(id, c, url, item) ==
  LET old == JSONparse(localStorage.apod_cache)
      merged == [f \in DOMAIN old \cup DOMAIN item.obj |->
                   IF f \in DOMAIN item.obj THEN item.obj[f] ELSE old[f]]
  IN  /\ background' = url
      /\ IF SetItemThrows(item)
           THEN /\ chains' = [chains EXCEPT ![id] = [c EXCEPT !.pc = "threw", !.rendered = url]]
                /\ UNCHANGED <<localStorage, lastWriter>>
         ELSE /\ chains' = [chains EXCEPT ![id] = [c EXCEPT !.pc = "done", !.rendered = url]]
              /\ localStorage' = [localStorage EXCEPT !.apod_cache = JSONstringify(merged)]
              /\ lastWriter' = id

\* setBackgroundImage(url) and then localStorage.setItem(CACHE_KEY, item):
\* the url is applied; the chain ends, by the item stored or by the throw
RenderAndStore(id, c, url, item) ==
  /\ background' = url
  /\ IF SetItemThrows(item)
       THEN /\ chains' = [chains EXCEPT ![id] = [c EXCEPT !.pc = "threw", !.rendered = url]]
            /\ UNCHANGED <<localStorage, lastWriter>>
       ELSE /\ chains' = [chains EXCEPT ![id] = [c EXCEPT !.pc = "done", !.rendered = url]]
            /\ localStorage' = [localStorage EXCEPT !.apod_cache = item]
            /\ lastWriter' = id

DownloadAndProcessImage(id, c, imageUrl) ==
  /\ chains' = [chains EXCEPT ![id] =
                  [c EXCEPT !.pc = "loading", !.imageUrl = imageUrl]]
  /\ UNCHANGED <<localStorage, background, lastWriter>>

FallbackToDefaultBackground(id, c) ==
  LET f == [c EXCEPT !.fallback = TRUE]
      defaultBackground == DefaultBackground(CONFIG)
  IN  IF ~CONFIG.declared
        THEN \* ReferenceError: CONFIG is not defined
             /\ chains' = [chains EXCEPT ![id] = [f EXCEPT !.pc = "threw"]]
             /\ UNCHANGED <<localStorage, background, lastWriter>>
      ELSE IF StartsWithHttp(defaultBackground)
        THEN DownloadAndProcessImage(id, f, defaultBackground)
      ELSE RenderAndStore(id, f, defaultBackground,
             JSONstringify([imageUrl |-> defaultBackground, date |-> c.dateStr]))

TryAlternativeApproaches(id, c) ==
  LET directImageUrl == DirectImageUrl(clock)
  IN  /\ chains' = [chains EXCEPT ![id] =
                      [c EXCEPT !.pc = "probing", !.imageUrl = directImageUrl]]
      /\ UNCHANGED <<localStorage, background, lastWriter>>

\* the validity test of the legacy variant: a timestamp, not a date
CacheIsValid_Legacy(cachedData, currentDateStr) ==
  /\ Get(cachedData, "timestamp") # Undefined
  /\ Get(cachedData, "imageUrl") # Undefined

\* the validity test with the date dropped (any record with an image is used)
CacheIsValid_AnyDate(cachedData, currentDateStr) ==
  Get(cachedData, "imageUrl") # Undefined

\* cachedData.date === currentDateStr && cachedData.imageUrl
CacheIsValid(cachedData, currentDateStr) ==
  /\ Get(cachedData, "date") = currentDateStr
  /\ Get(cachedData, "imageUrl") # Undefined

\* fetchAPODImage up to its first await, called with the storage as ls
FetchAPODImage(id, c, ls, writer) ==
  LET currentDateStr == CurrentDateStr(clock)
      text == ls.apod_cache
      cachedData == JSONparse(text)
      d == [c EXCEPT !.dateStr = currentDateStr]
  IN  /\ localStorage' = ls
      /\ lastWriter' = writer
      /\ IF JSONparseThrows(text)
           THEN \* SyntaxError before the try block: the promise rejects
                /\ chains' = [chains EXCEPT ![id] = [d EXCEPT !.pc = "threw"]]
                /\ UNCHANGED background
         ELSE IF CacheIsValid(cachedData, currentDateStr)
           THEN /\ background' = cachedData.imageUrl
                /\ chains' = [chains EXCEPT ![id] =
                                [d EXCEPT !.pc = "done", !.path = "cache",
                                          !.rendered = cachedData.imageUrl]]
         ELSE /\ chains' = [chains EXCEPT ![id] = [d EXCEPT !.pc = "fetching"]]
              /\ UNCHANGED background

\* the day test that never clears the cache
IsNewDay_Never(lastVisitDate, currentDateStr) == FALSE

\* the day test that always clears it (a Date compared with a string)
IsNewDay_Always(lastVisitDate, currentDateStr) == TRUE

\* lastVisitDate !== currentDateStr
IsNewDay(lastVisitDate, currentDateStr) == lastVisitDate # currentDateStr

CheckLastVisit(id) ==
  LET currentDateStr == CurrentDateStr(clock)
      lastVisitDate == GetItemOr(localStorage.apod_last_visit, Undefined)
      marker == StringItem(currentDateStr)
      marked == [localStorage EXCEPT !.apod_last_visit = marker]
      newDay == IsNewDay(lastVisitDate, currentDateStr)
  IN  IF SetItemThrows(marker)
        THEN /\ chains' = [chains EXCEPT ![id] = [IdleChain EXCEPT !.pc = "threw"]]
             /\ UNCHANGED <<localStorage, background, lastWriter>>
      ELSE FetchAPODImage(id, IdleChain,
             IF newDay THEN [marked EXCEPT !.apod_cache = NullItem] ELSE marked,
             IF newDay THEN 0 ELSE lastWriter)

(***************************************************************************)
(* Actions: the environment's events and the handlers they run.            *)
(***************************************************************************)
Frame == UNCHANGED <<clock, ticks, storageQuota, CONFIG>>

\* midnight passes
Tick ==
  /\ ticks < MaxTicks
  /\ clock' = NextDay(clock)
  /\ ticks' = ticks + 1
  /\ UNCHANGED <<localStorage, storageQuota, CONFIG, loaded, background, chains,
                 nTriggers, lastWriter>>

\* window 'load': checkLastVisit
PageLoad(limit) ==
  /\ ~loaded
  /\ nTriggers < limit
  /\ loaded' = TRUE
  /\ nTriggers' = nTriggers + 1
  /\ CheckLastVisit(nTriggers + 1)
  /\ Frame

\* document 'visibilitychange' with visibilityState 'hidden': nothing is done
VisibilityHidden == UNCHANGED vars

\* document 'visibilitychange' with visibilityState 'visible': checkLastVisit
VisibilityVisible(limit) ==
  /\ nTriggers < limit
  /\ nTriggers' = nTriggers + 1
  /\ CheckLastVisit(nTriggers + 1)
  /\ UNCHANGED loaded
  /\ Frame

Rest == UNCHANGED <<loaded, nTriggers>> /\ Frame

\* the proxy answers, or the request fails in transport
FetchSettles(id) ==
  /\ chains[id].pc = "fetching"
  /\ \E r \in {Rejected} \cup {Response(TRUE, b) : b \in HtmlPages}
                \cup {Response(FALSE, b) : b \in ErrorBodies} :
       chains' = [chains EXCEPT ![id] = [@ EXCEPT !.pc = "responded", !.response = r]]
  /\ UNCHANGED <<localStorage, background, lastWriter>>
  /\ Rest

\* the test that takes every response for a page (the legacy variant's)
ResponseFailed_NoStatusCheck(response) == response.kind = "rejected"

\* fetch rejected, or !response.ok
ResponseFailed(response) == response.kind = "rejected" \/ ~response.ok

\* fetchAPODImage from the await on
FetchContinuation(id) ==
  LET c == chains[id]
      r == c.response
      html == r.body
      match == Match(html)
      k == [c EXCEPT !.response = NoResponse]
  IN  /\ c.pc = "responded"
      /\ IF ResponseFailed(r)
           THEN TryAlternativeApproaches(id,
                  [k EXCEPT !.path = IF r.kind = "rejected" THEN "rejected" ELSE "status"])
         ELSE IF match # Undefined
           THEN DownloadAndProcessImage(id, [k EXCEPT !.path = "extracted"],
                                        MakeAbsolute(match))
         ELSE TryAlternativeApproaches(id, [k EXCEPT !.path = "miss"])
      /\ Rest

\* testImg.onload: the probe image has loaded
TestImgOnload(id) ==
  LET c == chains[id]
  IN  /\ c.pc = "probing"
      /\ DownloadAndProcessImage(id, [c EXCEPT !.probe = "found"], c.imageUrl)
      /\ Rest

\* testImg.onerror: the probe image has failed to load
TestImgOnerror(id) ==
  LET c == chains[id]
  IN  /\ c.pc = "probing"
      /\ FallbackToDefaultBackground(id, [c EXCEPT !.probe = "notfound"])
      /\ Rest

\* the image of downloadAndProcessImage loads, with its natural size, or fails to
ImageSettles(id, sizes) ==
  /\ chains[id].pc = "loading"
  /\ \/ \E n \in sizes :
          chains' = [chains EXCEPT ![id] =
                       [@ EXCEPT !.pc = "loadend", !.settled = "load", !.natural = n]]
     \/ chains' = [chains EXCEPT ![id] = [@ EXCEPT !.pc = "loadend", !.settled = "error"]]
  /\ UNCHANGED <<localStorage, background, lastWriter>>
  /\ Rest

\* img.onload
ImgOnload(id) ==
  LET c == chains[id]
      imageUrl == c.imageUrl
  IN  /\ c.pc = "loadend" /\ c.settled = "load"
      /\ \E dims \in TargetDimensions(c.natural[1], c.natural[2]),
            encodes \in BOOLEAN :
           LET width == dims[1]
               height == dims[2]
               k == [c EXCEPT !.settled = "none", !.canvas = dims]
               dataUrl == DataUrl(imageUrl, width, height)
               processed == JSONstringify([imageUrl |-> dataUrl, date |-> c.dateStr,
                                           width |-> width, height |-> height])
               original == JSONstringify([imageUrl |-> imageUrl, date |-> c.dateStr])
           IN  IF encodes /\ ~SetItemThrows(processed)
                 THEN \* the try block runs through
                      /\ localStorage' = [localStorage EXCEPT !.apod_cache = processed]
                      /\ lastWriter' = id
                      /\ background' = dataUrl
                      /\ chains' = [chains EXCEPT ![id] =
                                      [k EXCEPT !.pc = "done", !.rendered = dataUrl]]
               ELSE \* toDataURL or setItem threw: the catch block
                    RenderAndStore(id, k, imageUrl, original)
      /\ Rest

\* img.onerror
ImgOnerror(id) ==
  LET c == chains[id]
  IN  /\ c.pc = "loadend" /\ c.settled = "error"
      /\ FallbackToDefaultBackground(id, [c EXCEPT !.settled = "none"])
      /\ Rest

Next ==
  \/ Tick
  \/ PageLoad(MaxTriggers)
  \/ VisibilityHidden
  \/ VisibilityVisible(MaxTriggers)
  \/ \E id \in Ids : FetchSettles(id)
  \/ \E id \in Ids : FetchContinuation(id)
  \/ \E id \in Ids : TestImgOnload(id)
  \/ \E id \in Ids : TestImgOnerror(id)
  \/ \E id \in Ids : ImageSettles(id, NaturalSizes)
  \/ \E id \in Ids : ImgOnload(id)
  \/ \E id \in Ids : ImgOnerror(id)

Spec == Init /\ [][Next]_vars

(***************************************************************************)
(* The same page within one calendar day: no midnight passes, the storage  *)
(* starts empty or with the day's record, and more triggers are followed.  *)
(***************************************************************************)
SameDayInit ==
  /\ Init
  /\ storageQuota >= 1
  /\ CONFIG.declared => CONFIG.defaultBackground # Undefined
  /\ \/ localStorage = [apod_cache |-> NullItem, apod_last_visit |-> NullItem]
     \/ /\ localStorage.apod_last_visit # NullItem
        /\ CacheIsValid(JSONparse(localStorage.apod_cache), CurrentDateStr(clock))

SameDayNext ==
  \/ PageLoad(MaxSameDayTriggers)
  \/ VisibilityHidden
  \/ VisibilityVisible(MaxSameDayTriggers)
  \/ \E id \in Ids : FetchSettles(id)
  \/ \E id \in Ids : FetchContinuation(id)
  \/ \E id \in Ids : TestImgOnload(id)
  \/ \E id \in Ids : TestImgOnerror(id)
  \/ \E id \in Ids : ImageSettles(id, NaturalSizes)
  \/ \E id \in Ids : ImgOnload(id)
  \/ \E id \in Ids : ImgOnerror(id)

SameDaySpec == SameDayInit /\ [][SameDayNext]_vars


(***************************************************************************)
(* The page with storage that takes every write, a declared CONFIG and a   *)
(* cache item that parses, where every request the page makes is answered: *)
(* each pending fetch and image load settles, each settled one's handler   *)
(* runs (the browser's event loop runs every queued task).                 *)
(***************************************************************************)
FairInit ==
  /\ Init
  /\ storageQuota = 3
  /\ CONFIG.declared
  /\ ~JSONparseThrows(localStorage.apod_cache)

Fairness ==
  \A id \in Ids :
    /\ WF_vars(FetchSettles(id))
    /\ WF_vars(FetchContinuation(id))
    /\ WF_vars(TestImgOnload(id) \/ TestImgOnerror(id))
    /\ WF_vars(ImageSettles(id, NaturalSizes))
    /\ WF_vars(ImgOnload(id))
    /\ WF_vars(ImgOnerror(id))

FairSpec == FairInit /\ [][Next]_vars /\ Fairness

(***************************************************************************)
(* The image processor on its own: one chain whose extracted image is      *)
(* loading, and natural sizes drawn from a grid of sides around the limit. *)
(***************************************************************************)
\* the small sides of the grid are 1..MaxSmallSide
MaxSmallSide == 3

\* sides at, next to and beyond MAX_DIMENSION, and the pair 159, 1696 whose
\* scaled value is an exact half
Sides ==
  (1..MaxSmallSide)
    \cup {159, 800, 1199, 1200, 1201, 1600, 1696, 2399, 2400, 2401, 4200}

DimSizes == Sides \X Sides

DimsInit ==
  /\ clock = StartDate
  /\ ticks = 0
  /\ localStorage = [apod_cache |-> NullItem,
                     apod_last_visit |-> StringItem(CurrentDateStr(StartDate))]
  /\ storageQuota \in QuotaLevels \ {0}
  /\ CONFIG \in Configs
  /\ loaded = TRUE
  /\ background = Undefined
  /\ chains = [id \in Ids |->
                 IF id = 1
                   THEN [IdleChain EXCEPT !.pc = "loading",
                                          !.dateStr = CurrentDateStr(StartDate),
                                          !.imageUrl = MakeAbsolute(Match(PageRootedImg)),
                                          !.path = "extracted"]
                 ELSE IdleChain]
  /\ nTriggers = 1
  /\ lastWriter = 0

DimsNext ==
  \/ ImageSettles(1, DimSizes)
  \/ ImgOnload(1)
  \/ ImgOnerror(1)

DimsSpec == DimsInit /\ [][DimsNext]_vars

(***************************************************************************)
(* The legacy variant (24-hour cache): fetchAPODImage runs once, on        *)
(* DOMContentLoaded; the cache record carries a timestamp; the fallback    *)
(* prefers the cached image.  Times are in seconds where the source has   *)
(* milliseconds (the tool's integers are 32 bits wide); a tick is 12 hours.*)
(***************************************************************************)
\* CACHE_EXPIRY: 24 hours
CACHE_EXPIRY == 24 * 60 * 60

\* what one tick adds to new Date().getTime(): twelve hours
HalfDay == 12 * 60 * 60

\* new Date().getTime() at the first state (2024-12-31)
LegacyEpoch == 1735603200

\* new Date().getTime()
Now == LegacyEpoch + ticks * HalfDay

DigitValue(ch) == CHOOSE d \in 0..9 : DigitChars[d + 1] = ch

\* the number JSON.parse reads from the digits JSON.stringify wrote
RECURSIVE ParseNumber(_)
ParseNumber(s) ==
  IF Len(s) = 0 THEN 0
  ELSE 10 * ParseNumber(SubSeq(s, 1, Len(s) - 1)) + DigitValue(s[Len(s)])

\* JSON.stringify({imageUrl: imageUrl, timestamp: now})
LegacyRecord(imageUrl, now) ==
  JSONstringify([imageUrl |-> imageUrl, timestamp |-> NumberToString(now)])

\* cachedData.timestamp && (now - cachedData.timestamp < CACHE_EXPIRY)
\*   && cachedData.imageUrl
LegacyCacheIsValid(cachedData, now) ==
  /\ Get(cachedData, "timestamp") # Undefined
  /\ ParseNumber(Get(cachedData, "timestamp")) # 0
  /\ now - ParseNumber(Get(cachedData, "timestamp")) < CACHE_EXPIRY
  /\ Get(cachedData, "imageUrl") # Undefined

\* the legacy chain: now is the time fetchAPODImage read at its start
LegacyIdleChain ==
  [pc |-> "idle", now |-> 0, imageUrl |-> Undefined, response |-> NoResponse,
   path |-> "none", probe |-> "none", fallback |-> FALSE, rendered |-> Undefined]

\* the fallback of the date-based variant put in the legacy one's place:
\* the default whatever the cache holds
LegacyFallback_DefaultFirst(id, c) ==
  LET f == [c EXCEPT !.fallback = TRUE]
  IN  /\ IF ~CONFIG.declared
           THEN /\ chains' = [chains EXCEPT ![id] = [f EXCEPT !.pc = "threw"]]
                /\ UNCHANGED background
         ELSE /\ background' = DefaultBackground(CONFIG)
              /\ chains' = [chains EXCEPT ![id] =
                              [f EXCEPT !.pc = "done",
                                        !.rendered = DefaultBackground(CONFIG)]]
      /\ UNCHANGED <<localStorage, lastWriter>>

\* fallbackToDefaultBackground of the legacy variant
LegacyFallback(id, c) ==
  LET f == [c EXCEPT !.fallback = TRUE]
      text == localStorage.apod_cache
      cachedData == JSONparse(text)
  IN  /\ IF JSONparseThrows(text)
           THEN /\ chains' = [chains EXCEPT ![id] = [f EXCEPT !.pc = "threw"]]
                /\ UNCHANGED background
         ELSE IF Get(cachedData, "imageUrl") # Undefined
           THEN \* the last successful image, even if the cache expired
                /\ background' = cachedData.imageUrl
                /\ chains' = [chains EXCEPT ![id] =
                                [f EXCEPT !.pc = "done", !.rendered = cachedData.imageUrl]]
         ELSE IF ~CONFIG.declared
           THEN \* ReferenceError: CONFIG is not defined
                /\ chains' = [chains EXCEPT ![id] = [f EXCEPT !.pc = "threw"]]
                /\ UNCHANGED background
         ELSE /\ background' = DefaultBackground(CONFIG)
              /\ chains' = [chains EXCEPT ![id] =
                              [f EXCEPT !.pc = "done",
                                        !.rendered = DefaultBackground(CONFIG)]]
      /\ UNCHANGED <<localStorage, lastWriter>>

\* fetchAPODImage of the legacy variant up to its await
LegacyFetchAPODImage(id) ==
  LET text == localStorage.apod_cache
      cachedData == JSONparse(text)
      now == Now
      c == [LegacyIdleChain EXCEPT !.now = now]
  IN  /\ IF JSONparseThrows(text)
           THEN /\ chains' = [chains EXCEPT ![id] = [c EXCEPT !.pc = "threw"]]
                /\ UNCHANGED background
         ELSE IF LegacyCacheIsValid(cachedData, now)
           THEN /\ background' = cachedData.imageUrl
                /\ chains' = [chains EXCEPT ![id] =
                                [c EXCEPT !.pc = "done", !.path = "cache",
                                          !.rendered = cachedData.imageUrl]]
         ELSE /\ chains' = [chains EXCEPT ![id] = [c EXCEPT !.pc = "fetching"]]
              /\ UNCHANGED background
      /\ UNCHANGED <<localStorage, lastWriter>>

\* localStorage.setItem(CACHE_KEY, {imageUrl, timestamp: now}) and then
\* setBackgroundImage(imageUrl), when the write goes through
LegacyStoreAndRender(id, c, imageUrl) ==
  /\ localStorage' = [localStorage EXCEPT !.apod_cache = LegacyRecord(imageUrl, c.now)]
  /\ lastWriter' = id
  /\ background' = imageUrl
  /\ chains' = [chains EXCEPT ![id] =
                  [c EXCEPT !.pc = "done", !.imageUrl = imageUrl, !.rendered = imageUrl]]

\* twelve hours pass; every second time the calendar day changes
LegacyTick ==
  /\ ticks < 2 * MaxTicks
  /\ ticks' = ticks + 1
  /\ clock' = IF ticks % 2 = 1 THEN NextDay(clock) ELSE clock
  /\ UNCHANGED <<localStorage, storageQuota, CONFIG, loaded, background, chains,
                 nTriggers, lastWriter>>

\* document 'DOMContentLoaded': fetchAPODImage
LegacyDOMContentLoaded ==
  /\ ~loaded
  /\ loaded' = TRUE
  /\ nTriggers' = nTriggers + 1
  /\ LegacyFetchAPODImage(1)
  /\ Frame

\* fetchAPODImage of the legacy variant from the await on: no status test
LegacyFetchContinuation(id) ==
  LET c == chains[id]
      r == c.response
      match == Match(r.body)
      k == [c EXCEPT !.response = NoResponse]
  IN  /\ c.pc = "responded"
      /\ IF r.kind = "rejected"
           THEN LegacyFallback(id, [k EXCEPT !.path = "rejected"])
         ELSE IF match # Undefined
           THEN IF SetItemThrows(LegacyRecord(MakeAbsolute(match), c.now))
                  THEN \* the throw lands in the catch block of fetchAPODImage
                       LegacyFallback(id, [k EXCEPT !.path = "extracted"])
                ELSE LegacyStoreAndRender(id, [k EXCEPT !.path = "extracted"],
                                          MakeAbsolute(match))
         ELSE /\ chains' = [chains EXCEPT ![id] =
                              [k EXCEPT !.pc = "probing", !.path = "miss",
                                        !.imageUrl = DirectImageUrl(clock)]]
              /\ UNCHANGED <<localStorage, background, lastWriter>>
      /\ Rest

\* testImg.onload of the legacy variant
LegacyTestImgOnload(id) ==
  LET c == [chains[id] EXCEPT !.probe = "found"]
  IN  /\ chains[id].pc = "probing"
      /\ IF SetItemThrows(LegacyRecord(c.imageUrl, c.now))
           THEN /\ chains' = [chains EXCEPT ![id] = [c EXCEPT !.pc = "threw"]]
                /\ UNCHANGED <<localStorage, background, lastWriter>>
         ELSE LegacyStoreAndRender(id, c, c.imageUrl)
      /\ Rest

\* testImg.onerror of the legacy variant
LegacyTestImgOnerror(id) ==
  /\ chains[id].pc = "probing"
  /\ LegacyFallback(id, [chains[id] EXCEPT !.probe = "notfound"])
  /\ Rest

\* what the cache may hold when the legacy page opens: nothing, garbage, a
\* record an hour old, one twelve hours old, one exactly 24 hours old, a
\* timestamp without an image, a record the date-based variant wrote
LegacyInitialCaches ==
  LET url == ImageDir \o <<"old", ".jpg">>
  IN  { NullItem,
        StringItem(<<"not json">>),
        LegacyRecord(url, LegacyEpoch - 60 * 60),
        LegacyRecord(url, LegacyEpoch - HalfDay),
        LegacyRecord(url, LegacyEpoch - CACHE_EXPIRY),
        JSONstringify([timestamp |-> NumberToString(LegacyEpoch - HalfDay)]),
        JSONstringify([imageUrl |-> url, date |-> CurrentDateStr(StartDate)]) }

LegacyInit ==
  /\ clock = StartDate
  /\ ticks = 0
  /\ localStorage \in [apod_cache : LegacyInitialCaches, apod_last_visit : {NullItem}]
  /\ storageQuota \in QuotaLevels
  /\ CONFIG \in Configs
  /\ loaded = FALSE
  /\ background = Undefined
  /\ chains = [id \in Ids |-> LegacyIdleChain]
  /\ nTriggers = 0
  /\ lastWriter = 0

LegacyNext ==
  \/ LegacyTick
  \/ LegacyDOMContentLoaded
  \/ \E id \in Ids : FetchSettles(id)
  \/ \E id \in Ids : LegacyFetchContinuation(id)
  \/ \E id \in Ids : LegacyTestImgOnload(id)
  \/ \E id \in Ids : LegacyTestImgOnerror(id)

LegacySpec == LegacyInit /\ [][LegacyNext]_vars

(***************************************************************************)
(* The date-based page of a profile whose storage starts empty: whatever   *)
(* the two keys hold was written by this variant.                          *)
(***************************************************************************)
FreshInit ==
  /\ Init
  /\ localStorage = [apod_cache |-> NullItem, apod_last_visit |-> NullItem]

FreshSpec == FreshInit /\ [][Next]_vars

(***************************************************************************)
(* Claims.                                                                 *)
(***************************************************************************)
\* the step is a trigger whose checkLastVisit reached fetchAPODImage as chain id
FetchCalled(id) == chains[id].pc = "idle" /\ chains'[id].dateStr # Undefined

\* the object fetchAPODImage parsed in that step (the step stores nothing after)
CachedAtCall == JSONparse(localStorage'.apod_cache)

Today == CurrentDateStr(clock)

\* C1 as stated: whenever fetchAPODImage is called with a cache record whose
\* date is today's date string, whatever else the record holds, it issues
\* no network request (it does not go on to fetch).
C1_AnyRecordOfToday ==
  [][\A id \in Ids :
       (FetchCalled(id) /\ Get(CachedAtCall, "date") = Today)
         => chains'[id].pc # "fetching"]_vars

\* C1 as amended: whenever fetchAPODImage is called with a cache record whose
\* date is today's date string and whose imageUrl is non-empty, it renders
\* that imageUrl and returns: no fetch is pending, no image is loading, the
\* storage is as the call found it.
C1_ValidRecordOfToday ==
  [][\A id \in Ids :
       (/\ FetchCalled(id)
        /\ Get(CachedAtCall, "date") = Today
        /\ Get(CachedAtCall, "imageUrl") # Undefined)
         => /\ chains'[id].pc = "done"
            /\ chains'[id].path = "cache"
            /\ chains'[id].imageUrl = Undefined
            /\ background' = CachedAtCall.imageUrl]_vars

\* a call has returned from the cache: today's record is in the cache and
\* is what the page shows
C1_Witness ==
  \E id \in Ids :
    /\ chains[id].pc = "done" /\ chains[id].path = "cache"
    /\ Get(JSONparse(localStorage.apod_cache), "date") = Today
    /\ background = JSONparse(localStorage.apod_cache).imageUrl
    /\ chains[id].rendered = background

\* the step is trigger number id: checkLastVisit runs as chain id
TriggerStep(id) == chains[id].pc = "idle" /\ chains'[id].pc # "idle"

\* C2 as stated: of two consecutive visibility-change-to-visible events on
\* one calendar day (no load event among the triggers so far), the second
\* reuses the cache and issues no network request, whenever it fires and
\* however the first one's chain went.
C2_SecondAlwaysReuses ==
  [][\A id \in Ids :
       (/\ id > 1
        /\ TriggerStep(id)
        /\ ~loaded'
        /\ chains[id - 1].dateStr = Today)
         => chains'[id].path = "cache"]_vars

\* C2 as amended: of two consecutive triggers on one calendar day, the second
\* reuses the cache (it renders what the first one's chain rendered, leaves
\* the cache item alone and issues no network request) whenever the item in
\* the cache as it fires is the one the first trigger's chain stored.
C2_SecondReusesStoredRecord ==
  [][\A id \in Ids :
       (/\ id > 1
        /\ TriggerStep(id)
        /\ chains[id - 1].dateStr = Today
        /\ lastWriter = id - 1)
         => /\ chains'[id].pc = "done"
            /\ chains'[id].path = "cache"
            /\ chains'[id].rendered = chains[id - 1].rendered
            /\ background' = chains[id - 1].rendered
            /\ localStorage'.apod_cache = localStorage.apod_cache]_vars

\* two visibility changes, the first fetched and stored, the second reused
C2_Witness ==
  /\ ~loaded
  /\ chains[1].pc = "done" /\ chains[1].path \in {"extracted", "miss", "rejected", "status"}
  /\ chains[2].pc = "done" /\ chains[2].path = "cache"
  /\ lastWriter = 1
  /\ chains[2].rendered = chains[1].rendered

\* C3: every trigger eventually reaches Render: once checkLastVisit has run
\* as chain id, the chain eventually calls setBackgroundImage, given that
\* every fetch and every image load settles and its handler runs.
C3_EveryTriggerRenders ==
  \A id \in Ids :
    [](chains[id].pc # "idle" => <>(chains[id].rendered # Undefined))

\* the page fetch failed (rejected or not OK) and the probe image failed too
BothFailed(c) == c.path \in {"rejected", "status"} /\ c.probe = "notfound"

\* the background the configuration names, the literal if it names none
ConfiguredDefault ==
  IF CONFIG.defaultBackground = << >>
    THEN <<"https://apod.nasa.gov", "/", "apod", "/", "image", "/",
           "2409", "/", "Bat_Taivalnaa_4200", ".jpg">>
  ELSE CONFIG.defaultBackground

\* C4 as stated: when the page fetch and the probe both fail, the background
\* the chain renders equals the configured default (the literal if none).
C4_RendersTheDefaultItself ==
  \A id \in Ids :
    (BothFailed(chains[id]) /\ chains[id].rendered # Undefined)
      => chains[id].rendered = ConfiguredDefault

\* C4 as amended: when the page fetch and the probe both fail, the only image
\* the chain loads is the configured default (the literal if none), and what
\* it renders is that default: the value itself when it is not an http URL
\* or when re-encoding or storing throws, and otherwise the JPEG data URL
\* re-encoded from the downloaded default at the canvas size.
C4_RendersTheDefaultOrItsEncoding ==
  \A id \in Ids :
    LET c == chains[id]
    IN  BothFailed(c) =>
          /\ c.pc \in {"loading", "loadend"} => c.imageUrl = ConfiguredDefault
          /\ c.rendered # Undefined =>
               IF StartsWithHttp(ConfiguredDefault)
                 THEN /\ c.imageUrl = ConfiguredDefault
                      /\ c.rendered \in
                           {ConfiguredDefault,
                            DataUrl(ConfiguredDefault, c.canvas[1], c.canvas[2])}
               ELSE c.rendered = ConfiguredDefault

\* both failed and the chain rendered the re-encoded default
C4_Witness ==
  \E id \in Ids :
    /\ BothFailed(chains[id])
    /\ chains[id].pc = "done"
    /\ chains[id].rendered = DataUrl(ConfiguredDefault, MAX_DIMENSION, 800)
    /\ background = chains[id].rendered

\* the step is chain id's continuation of the fetch that answered OK with html
ContinuesWith(id, html) ==
  /\ chains[id].pc = "responded"
  /\ chains[id].response = [kind |-> "response", ok |-> TRUE, body |-> html]
  /\ chains'[id].pc # "responded"

\* C5: given fetched HTML that is <img src="image/foo.jpg">, the extraction
\* step reports a match, resolves it to https://apod.nasa.gov/apod/image/foo.jpg
\* and passes that to the image processor; it does not take the miss path.
C5_RelativeSrcIsExtracted ==
  [][\A id \in Ids :
       ContinuesWith(id, << [tag |-> "img", attr |-> "src",
                             value |-> <<"image", "/", "foo", ".jpg">>] >>)
         => /\ chains'[id].pc = "loading"
            /\ chains'[id].path = "extracted"
            /\ chains'[id].imageUrl =
                 <<"https://apod.nasa.gov", "/", "apod", "/", "image", "/",
                   "foo", ".jpg">>]_vars

\* C7: no error escapes a trigger's chain: whatever the two storage items
\* hold, however fetches, image loads and storage writes turn out and
\* whether or not CONFIG exists, no handler of a chain ends in an uncaught
\* exception or a rejected promise.
C7_NoChainThrows == \A id \in Ids : chains[id].pc # "threw"

\* the cache item a trigger's fetchAPODImage would read: null when
\* checkLastVisit clears it first
CacheAtTrigger ==
  IF GetItemOr(localStorage.apod_last_visit, Undefined) # Today
    THEN NullItem
  ELSE localStorage.apod_cache

\* C8: whenever a trigger fires and the cache holds no record dated today
\* (a record of another day, a legacy record with only a timestamp, no
\* record), the trigger issues a network fetch of the APOD page, and
\* nothing is rendered before it.
C8_StaleCacheFetches ==
  [][\A id \in Ids :
       (/\ TriggerStep(id)
        /\ \/ CacheAtTrigger.kind # "json"
           \/ Get(CacheAtTrigger.obj, "date") # Today)
         => /\ chains'[id].pc = "fetching"
            /\ chains'[id].rendered = Undefined
            /\ background' = background]_vars

\* the larger of two numbers
Larger(a, b) == IF a >= b THEN a ELSE b

\* r is a nearest integer to side * 1200 / longest
NearestScaled(r, side, longest) ==
  /\ 2 * (r * longest - 1200 * side) <= longest
  /\ 2 * (1200 * side - r * longest) <= longest

\* C6: for every loaded image whose width exceeds 1200 px, whatever its
\* height, the dimensions computed in downloadAndProcessImage have
\* max(width, height) = 1200, and the other dimension is the original one
\* scaled by 1200 / (original longest side), rounded to the nearest integer.
C6_LongestSideIs1200 ==
  \A id \in Ids :
    LET c == chains[id]
        longest == Larger(c.natural[1], c.natural[2])
    IN  (c.pc \in {"done", "threw"} /\ c.natural[1] > 1200)
          => /\ Larger(c.canvas[1], c.canvas[2]) = 1200
             /\ NearestScaled(c.canvas[1], c.natural[1], longest)
             /\ NearestScaled(c.canvas[2], c.natural[2], longest)

\* a wide image taller than it is wide has been processed: the height is
\* the side that became 1200
C6_Witness ==
  \E id \in Ids :
    /\ chains[id].pc = "done"
    /\ chains[id].natural = <<1201, 2400>>
    /\ chains[id].canvas = <<601, 1200>>

\* the two-digit decimal form of n, by value
TwoDigits(n) == <<DigitChars[((n \div 10) % 10) + 1], DigitChars[(n % 10) + 1]>>

\* https://apod.nasa.gov/apod/image/YYMM/YYMMDD.jpg for the clock's day
GuessedUrl ==
  LET yy == TwoDigits(clock.year % 100)
      mm == TwoDigits(clock.month + 1)
      dd == TwoDigits(clock.date)
  IN  <<"https://apod.nasa.gov", "/", "apod", "/", "image", "/">>
        \o yy \o mm \o <<"/">> \o yy \o mm \o dd \o <<".jpg">>

\* no tag of the page matches the <img> pattern or the <a href="*.jpg"> one
MatchesNeither(html) ==
  \A i \in 1..Len(html) : ~ImgRegexMatches(html[i]) /\ ~BackupRegexMatches(html[i])

\* the step is the first call of fallbackToDefaultBackground in a chain
\* that took the extraction-miss path
MissFallsBack(id) ==
  chains[id].path = "miss" /\ ~chains[id].fallback /\ chains'[id].fallback

\* the step is chain id's continuation of a fetch answered OK with a page
\* that matches neither pattern
ContinuesWithMiss(id) ==
  /\ chains[id].pc = "responded"
  /\ chains[id].response.kind = "response" /\ chains[id].response.ok
  /\ MatchesNeither(chains[id].response.body)
  /\ chains'[id].pc # "responded"

\* the step's probe is of exactly the guessed URL, on the miss path
ProbesGuess(id) ==
  /\ chains'[id].pc = "probing"
  /\ chains'[id].path = "miss"
  /\ chains'[id].imageUrl = GuessedUrl

\* C9 as stated: when the fetched HTML matches neither pattern the chain
\* takes the extraction-miss path and probes exactly
\* https://apod.nasa.gov/apod/image/YYMM/YYMMDD.jpg for the current date, and
\* the default-background fallback is reached only from the failed probe.
C9_FallbackOnlyAfterProbeFails ==
  [][\A id \in Ids :
       /\ ContinuesWithMiss(id) => ProbesGuess(id)
       /\ MissFallsBack(id) => chains[id].pc = "probing"]_vars

\* C9 as amended: when the fetched HTML matches neither pattern the chain
\* takes the extraction-miss path and probes exactly
\* https://apod.nasa.gov/apod/image/YYMM/YYMMDD.jpg for the current date; the
\* default-background fallback is reached after that probe fails, or after
\* the probe succeeds and the load of the guessed image for processing fails.
C9_FallbackAfterProbeOrLoadFails ==
  [][\A id \in Ids :
       /\ ContinuesWithMiss(id) => ProbesGuess(id)
       /\ MissFallsBack(id)
            => \/ chains[id].pc = "probing"
               \/ /\ chains[id].pc = "loadend"
                  /\ chains[id].settled = "error"
                  /\ chains[id].probe = "found"]_vars

\* after a midnight, a miss probed the guess 2501/250101.jpg, the probe
\* found it, its load for processing failed and the chain fell back
C9_Witness ==
  \E id \in Ids :
    /\ chains[id].path = "miss"
    /\ chains[id].probe = "found"
    /\ chains[id].fallback
    /\ chains[id].dateStr = <<"2", "0", "2", "5", "-", "0", "1", "-", "0", "1">>

\* the url carries a name taken from a page body
FromBody(url) == \E i \in 1..Len(url) : url[i] \in {"foo", "foo_small"}

\* C10: when the proxy fetch is rejected or answers with a non-success
\* status, the chain goes on to the direct-URL guess: the body is not run
\* through the extractor, and nothing of the body is loaded, cached or
\* rendered by the chain.
C10_FailedFetchGoesToGuess ==
  [][\A id \in Ids :
       /\ (/\ chains[id].pc = "responded"
           /\ chains[id].response.kind = "rejected" \/ ~chains[id].response.ok
           /\ chains'[id].pc # "responded")
            => /\ chains'[id].pc = "probing"
               /\ chains'[id].path \in {"rejected", "status"}
               /\ chains'[id].imageUrl = GuessedUrl
               /\ chains'[id].rendered = Undefined
               /\ localStorage' = localStorage
               /\ background' = background
       /\ chains'[id].path \in {"rejected", "status"}
            => /\ ~FromBody(chains'[id].imageUrl)
               /\ ~FromBody(chains'[id].rendered)
               /\ lastWriter' = id
                    => ~FromBody(Get(JSONparse(localStorage'.apod_cache), "imageUrl"))]_vars

\* a fetch answered with a non-success status whose body held an image;
\* the chain probed the guess, found it and rendered its re-encoding
C10_Witness ==
  \E id \in Ids :
    /\ chains[id].path = "status"
    /\ chains[id].probe = "found"
    /\ chains[id].pc = "done"
    /\ ~chains[id].fallback
    /\ IsDataUrl(chains[id].rendered)

\* the step is img.onload of chain id
ImgOnloadStep(id) ==
  /\ chains[id].pc = "loadend" /\ chains[id].settled = "load"
  /\ chains'[id].pc # "loadend"

\* the step rendered and cached the re-encoded image
ProcessedOutcome(id) ==
  /\ IsDataUrl(chains'[id].rendered)
  /\ Get(JSONparse(localStorage'.apod_cache), "imageUrl") = chains'[id].rendered

\* C11: when the image loads but re-encoding it (or storing the re-encoded
\* record) throws, downloadAndProcessImage renders the original remote URL
\* and leaves a cache record holding that URL as imageUrl with the chain's
\* date string; the default-background fallback is not taken.  As a step:
\* img.onload either renders and caches the re-encoded image or does that.
C11_OriginalUrlIsStored ==
  [][\A id \in Ids :
       (ImgOnloadStep(id) /\ ~ProcessedOutcome(id))
         => /\ chains'[id].rendered = chains[id].imageUrl
            /\ background' = chains[id].imageUrl
            /\ localStorage'.apod_cache =
                 [kind |-> "json", chars |-> << >>,
                  obj |-> [imageUrl |-> chains[id].imageUrl,
                           date |-> chains[id].dateStr]]
            /\ chains'[id].fallback = chains[id].fallback
            /\ chains'[id].pc = "done"]_vars

\* the item is a complete cache record: an image and a date
CompleteRecord(item) ==
  /\ item.kind = "json"
  /\ Get(item.obj, "imageUrl") # << >>
  /\ Get(item.obj, "date") # << >>

\* the step is the one in which chain id renders a fetched image or the
\* default (not the cached record)
EndsByRendering(id) ==
  /\ chains[id].rendered = << >>
  /\ chains'[id].rendered # << >>
  /\ chains'[id].path # "cache"

\* C12: the cache key is removed only by checkLastVisit and only when the
\* stored last-visit marker differs from the current date; every other step
\* leaves the cache item unchanged or overwrites it with a complete record;
\* and every chain that ends in a successful fetch or in a fallback writes
\* a record (of what it rendered, under its date).
C12_CacheLifecycle ==
  [][/\ (localStorage.apod_cache # NullItem /\ localStorage'.apod_cache = NullItem)
          => /\ \E id \in Ids : TriggerStep(id)
             /\ GetItemOr(localStorage.apod_last_visit, << >>) # Today
     /\ (localStorage'.apod_cache # localStorage.apod_cache
           /\ localStorage'.apod_cache # NullItem)
          => CompleteRecord(localStorage'.apod_cache)
     /\ \A id \in Ids :
          EndsByRendering(id)
            => /\ CompleteRecord(localStorage'.apod_cache)
               /\ localStorage'.apod_cache.obj.imageUrl = chains'[id].rendered
               /\ localStorage'.apod_cache.obj.date = chains'[id].dateStr]_vars

\* the record a chain that rendered url stores: the re-encoded one with the
\* canvas size, or the plain one
RecordWritten(c) ==
  IF IsDataUrl(c.rendered)
    THEN [kind |-> "json", chars |-> << >>,
          obj |-> [imageUrl |-> c.rendered, date |-> c.dateStr,
                   width |-> c.canvas[1], height |-> c.canvas[2]]]
  ELSE [kind |-> "json", chars |-> << >>,
        obj |-> [imageUrl |-> c.rendered, date |-> c.dateStr]]

\* C13: when a second trigger fires while the first trigger's chain is
\* outstanding, both chains run on independently (a step of one, a trigger
\* included, leaves the other as it was; neither is cancelled), and the
\* cache holds exactly the record of whichever chain wrote last, with no
\* field of the other's record in it.
C13_LastWriteWins ==
  [][/\ \A i, j \in Ids :
          (i # j /\ chains'[i] # chains[i]) => chains'[j] = chains[j]
     /\ \A id \in Ids : chains[id].pc # "idle" => chains'[id].pc # "idle"
     /\ lastWriter' # 0
          => localStorage'.apod_cache = RecordWritten(chains'[lastWriter'])]_vars

\* two chains that overlapped have both fetched, rendered and stored; the
\* first trigger's chain wrote last and the cache holds its record
C13_Witness ==
  /\ chains[1].pc = "done" /\ chains[1].path \notin {"none", "cache"}
  /\ chains[2].pc = "done" /\ chains[2].path \notin {"none", "cache"}
  /\ chains[1].rendered # chains[2].rendered
  /\ lastWriter = 1
  /\ localStorage.apod_cache = RecordWritten(chains[1])
  /\ background = chains[1].rendered

\* the step is chain id's call of fallbackToDefaultBackground
FallbackStep(id) == ~chains[id].fallback /\ chains'[id].fallback

\* the imageUrl of the record in the cache, empty if there is none
CachedImageUrl == Get(JSONparse(localStorage.apod_cache), "imageUrl")

\* C14: in the legacy 24-hour variant, when the fetch, the extraction or the
\* probe fails and the cache holds a record with a non-empty imageUrl,
\* fallbackToDefaultBackground renders that cached image, expired or not;
\* it never writes the cache; and it renders the configured default (or the
\* hard-coded literal) only when there is no cached imageUrl.
C14_LegacyFallbackPrefersCache ==
  [][\A id \in Ids :
       FallbackStep(id)
         => /\ localStorage' = localStorage
            /\ CachedImageUrl # << >>
                 => /\ chains'[id].rendered = CachedImageUrl
                    /\ background' = CachedImageUrl
                    /\ chains'[id].pc = "done"
            /\ CachedImageUrl = << >>
                 => chains'[id].rendered \in {<< >>, ConfiguredDefault}]_vars

\* the fetch was rejected twelve hours on, the record in the cache had
\* expired by then, and the fallback rendered its image all the same
C14_Witness ==
  \E id \in Ids :
    /\ chains[id].fallback /\ chains[id].path = "rejected"
    /\ chains[id].pc = "done"
    /\ ~LegacyCacheIsValid(JSONparse(localStorage.apod_cache), chains[id].now)
    /\ CachedImageUrl # << >>
    /\ Get(JSONparse(localStorage.apod_cache), "timestamp") # << >>
    /\ background = CachedImageUrl

\* a date string YYYY-MM-DD as the number YYYYMMDD
DateNumber(s) == ParseNumber(SelectSeq(s, LAMBDA ch : ch # "-"))

\* the date of the record in the cache after the step, empty if none
CachedDateAfter == Get(JSONparse(localStorage'.apod_cache), "date")

NoChainOutstanding == \A id \in Ids : chains[id].pc \in {"idle", "done", "threw"}

\* some trigger's chain has run to its end
SomeTriggerCompleted == \E id \in Ids : chains[id].pc = "done"

FromDefault(url) ==
  \/ url = ConfiguredDefault
  \/ /\ IsDataUrl(url)
     /\ Len(url) > Len(ConfiguredDefault)
     /\ SubSeq(url, 2, 1 + Len(ConfiguredDefault)) = ConfiguredDefault

\* chain id's page fetch and probe both failed, and it has completed the
\* default-background fallback and stored its record under today's date
FailureCached(id) ==
  /\ BothFailed(chains[id])
  /\ chains[id].fallback
  /\ chains[id].pc = "done"
  /\ chains[id].dateStr = Today

\* C17 as stated: once a chain whose page fetch and probe both failed has
\* completed the fallback and written its record under the current date,
\* every later trigger of that day renders the default from the cache and
\* issues no network request: from then on, while the day lasts, the cache
\* holds a record of today whose image is the default.
C17_DefaultStaysCached ==
  \A id \in Ids :
    FailureCached(id)
      => /\ Get(JSONparse(localStorage.apod_cache), "date") = Today
         /\ FromDefault(Get(JSONparse(localStorage.apod_cache), "imageUrl"))

\* C17 as amended: once such a chain has written its record under the
\* current date, every later trigger of that day that finds that record
\* still in the cache renders the default from it and issues no network
\* request (a chain that was outstanding meanwhile may have overwritten it).
C17_DefaultReusedWhileCached ==
  [][\A id, later \in Ids :
       (/\ FailureCached(id)
        /\ lastWriter = id
        /\ TriggerStep(later))
         => /\ chains'[later].pc = "done"
            /\ chains'[later].path = "cache"
            /\ chains'[later].rendered = chains[id].rendered
            /\ FromDefault(chains'[later].rendered)
            /\ background' = chains'[later].rendered
            /\ localStorage'.apod_cache = localStorage.apod_cache]_vars

\* the first trigger's fetch and probe failed and it cached the default;
\* the second trigger rendered the default from the cache
C17_Witness ==
  /\ FailureCached(1)
  /\ lastWriter = 1
  /\ chains[2].pc = "done" /\ chains[2].path = "cache"
  /\ FromDefault(chains[2].rendered)
  /\ background = chains[2].rendered

\* C18: for every loaded image with width >= 1 and height >= 1, the
\* dimensions computed in downloadAndProcessImage are both at least 1 and
\* at most 1200, and they are the original dimensions whenever both
\* original dimensions are at most 1200.
C18_DimensionsWithinBounds ==
  \A id \in Ids :
    LET c == chains[id]
    IN  (c.pc \in {"done", "threw"} /\ c.natural[1] >= 1 /\ c.natural[2] >= 1)
          => /\ c.canvas[1] >= 1 /\ c.canvas[1] <= 1200
             /\ c.canvas[2] >= 1 /\ c.canvas[2] <= 1200
             /\ (c.natural[1] <= 1200 /\ c.natural[2] <= 1200)
                  => c.canvas = c.natural

=============================================================================
